---- MODULE Spec2Model ----
(***************************************************************************)
(* Tuft Studio image pipeline (backend/app/processing/pipeline.py) as a    *)
(* state machine.  A raster is a row-major sequence of pixels over an      *)
(* h x w grid: pixel p (1-based) lies in row (p-1) \div w, column          *)
(* (p-1) % w.  A label map is such a sequence of label indices.            *)
(***************************************************************************)
EXTENDS Integers, Sequences, FiniteSets, TLC

VARIABLES pc, req, dims, img, smoothed, labels, palette, names, trace, log, resp

vars == <<pc, req, dims, img, smoothed, labels, palette, names, trace, log, resp>>

-----------------------------------------------------------------------------
(* Bounds of the explored inputs.                                          *)

\* Largest side, in pixels, of one uniform block of an input raster.
MaxScale == 2

\* Largest palette size requested in free (K-Means) mode.
MaxColors == 2

\* Number of labels of the label maps given to a single stage.
MaxLabels == 3

-----------------------------------------------------------------------------
(* Arithmetic helpers.                                                     *)

Abs(x) == IF x < 0 THEN -x ELSE x

Max2(a, b) == IF a >= b THEN a ELSE b

Min2(a, b) == IF a <= b THEN a ELSE b

RECURSIVE SumOver(_, _)
SumOver(f, S) ==
  IF S = {} THEN 0
  ELSE LET x == CHOOSE y \in S : TRUE IN f[x] + SumOver(f, S \ {x})

\* int(x) of a non-negative rational num/den: truncation.
IntOf(num, den) == num \div den

-----------------------------------------------------------------------------
(* Grid geometry.                                                          *)

Row(p, w) == (p - 1) \div w

Col(p, w) == (p - 1) % w

PixelAt(r, c, w) == r * w + c + 1

Pixels(h, w) == 1..(h * w)

\* labels.max() of a non-empty label map
MaxLabel(lab) == CHOOSE m \in {lab[p] : p \in DOMAIN lab} :
                   \A p \in DOMAIN lab : lab[p] <= m

\* (result == color_id)
MaskOf(lab, c) == {p \in DOMAIN lab : lab[p] = c}

Adjacent8(p, q, w) ==
  /\ Abs(Row(p, w) - Row(q, w)) <= 1
  /\ Abs(Col(p, w) - Col(q, w)) <= 1

\* The 8-connected component of mask that holds the pixels of comp.
RECURSIVE Grow(_, _, _, _)
Grow(comp, frontier, mask, w) ==
  LET nxt == {q \in mask \ comp : \E p \in frontier : Adjacent8(p, q, w)}
  IN  IF nxt = {} THEN comp ELSE Grow(comp \cup nxt, nxt, mask, w)

\* Position of a pixel's 2x2 block in the block raster scan of OpenCV's
\* 8-connectivity labelling (BBDT / Spaghetti): a component's label id is
\* ordered by the first block of the component that the scan meets.
BlockKey(p, w) == (Row(p, w) \div 2) * w + (Col(p, w) \div 2)

FirstPixel(mask, w) ==
  CHOOSE p \in mask : \A q \in mask :
     \/ BlockKey(p, w) < BlockKey(q, w)
     \/ (BlockKey(p, w) = BlockKey(q, w) /\ p <= q)

\* cv2.connectedComponentsWithStats(mask, connectivity=8): the components
\* comp_id = 1 .. num_components-1, in label order.
RECURSIVE ConnectedComponents(_, _)
ConnectedComponents(mask, w) ==
  IF mask = {} THEN << >>
  ELSE LET p == FirstPixel(mask, w)
           comp == Grow({p}, {p}, mask, w)
       IN  <<comp>> \o ConnectedComponents(mask \ comp, w)

\* cv2.dilate with a (2k+1) x (2k+1) kernel of ones, one iteration; pixels
\* outside the image never contribute (default border value).
DilateSquare(S, k, h, w) ==
  {p \in Pixels(h, w) : \E q \in S :
      /\ Abs(Row(p, w) - Row(q, w)) <= k
      /\ Abs(Col(p, w) - Col(q, w)) <= k}

\* cv2.dilate(mask, np.ones((5, 5)), iterations=2)
Dilate5x5Twice(S, h, w) == DilateSquare(DilateSquare(S, 2, h, w), 2, h, w)

\* Number of ring pixels carrying label l
CountOf(lab, ring, l) == Cardinality({p \in ring : lab[p] = l})

\* Faulty variant: the index after the most frequent label
BincountArgmaxOffByOne(lab, vals) ==
  LET top == MaxLabel([p \in vals |-> lab[p]])
  IN  1 + CHOOSE d \in 0..top :
            /\ \A e \in 0..top : CountOf(lab, vals, e) <= CountOf(lab, vals, d)
            /\ \A e \in 0..(d - 1) : CountOf(lab, vals, e) < CountOf(lab, vals, d)

\* Faulty variant: the last index holding the maximum
BincountArgmaxLast(lab, vals) ==
  LET top == MaxLabel([p \in vals |-> lab[p]])
  IN  CHOOSE d \in 0..top :
        /\ \A e \in 0..top : CountOf(lab, vals, e) <= CountOf(lab, vals, d)
        /\ \A e \in (d + 1)..top : CountOf(lab, vals, e) < CountOf(lab, vals, d)

\* int(np.bincount(neighbor_labels).argmax()): numpy's argmax returns the
\* first index holding the maximum.  vals is the set of ring pixels left
\* after dropping those of label c; it is not empty.
BincountArgmax(lab, vals) ==
  LET top == MaxLabel([p \in vals |-> lab[p]])
  IN  CHOOSE d \in 0..top :
        /\ \A e \in 0..top : CountOf(lab, vals, e) <= CountOf(lab, vals, d)
        /\ \A e \in 0..(d - 1) : CountOf(lab, vals, e) < CountOf(lab, vals, d)

\* result[pixels] = dominant
Assign(lab, S, d) == [p \in DOMAIN lab |-> IF p \in S THEN d ELSE lab[p]]

-----------------------------------------------------------------------------
(* Step 5: connected component cleanup (cleanup_small_regions).            *)

\* The floor of the cleanup threshold: max(int(...), 8)
MinRegionArea == 8

\* Faulty variant: the floor of 8 pixels left out
MinAreaNoFloor(total, thr) == IntOf(total * thr[1], thr[2])

\* min_area = max(int(total_pixels * threshold_ratio), 8); the ratio is the
\* rational thr[1] / thr[2].
MinArea(total, thr) == Max2(IntOf(total * thr[1], thr[2]), MinRegionArea)

\* Faulty variant: area <= min_area
IsFailingInclusive(area, min_area) == area <= min_area

\* area < min_area
IsFailing(area, min_area) == area < min_area

\* One record per component (cleanup) or lost pixel set (thickness) the stage
\* examined: the label map it read, the pixel set, the label written (-1:
\* nothing written) and the label map it left.
LogEntry(stage, c, before, comp, failing, dominant, after) ==
  [stage |-> stage, color |-> c, before |-> before, comp |-> comp,
   failing |-> failing, dominant |-> dominant, after |-> after]

\* border = dilated - comp_mask; neighbor_labels != color_id
NeighborPixels(lab, S, c, h, w) ==
  {p \in Dilate5x5Twice(S, h, w) \ S : lab[p] # c}

\* Faulty variant: a failing component without a neighbour of another label
\* is written with label 0 instead of being skipped
RECURSIVE CleanupCompsZeroFill(_, _, _, _, _, _, _)
CleanupCompsZeroFill(acc, comps, i, c, min_area, h, w) ==
  IF i > Len(comps) THEN acc
  ELSE LET comp == comps[i]
           failing == IsFailing(Cardinality(comp), min_area)
           vals == NeighborPixels(acc.lab, comp, c, h, w)
           dominant == IF ~failing THEN -1
                       ELSE IF vals # {} THEN BincountArgmax(acc.lab, vals) ELSE 0
           lab2 == IF dominant >= 0 THEN Assign(acc.lab, comp, dominant)
                   ELSE acc.lab
           entry == LogEntry("cleanup", c, acc.lab, comp, failing, dominant, lab2)
       IN  CleanupCompsZeroFill([lab |-> lab2, log |-> Append(acc.log, entry)],
                                comps, i + 1, c, min_area, h, w)

\* Faulty variant: the dominant label is written over the dilated mask
\* instead of the component
RECURSIVE CleanupCompsPaintDilated(_, _, _, _, _, _, _)
CleanupCompsPaintDilated(acc, comps, i, c, min_area, h, w) ==
  IF i > Len(comps) THEN acc
  ELSE LET comp == comps[i]
           failing == IsFailing(Cardinality(comp), min_area)
           vals == NeighborPixels(acc.lab, comp, c, h, w)
           dominant == IF failing /\ vals # {}
                       THEN BincountArgmax(acc.lab, vals) ELSE -1
           lab2 == IF dominant >= 0
                   THEN Assign(acc.lab, Dilate5x5Twice(comp, h, w), dominant)
                   ELSE acc.lab
           entry == LogEntry("cleanup", c, acc.lab, comp, failing, dominant, lab2)
       IN  CleanupCompsPaintDilated([lab |-> lab2, log |-> Append(acc.log, entry)],
                                    comps, i + 1, c, min_area, h, w)

\* The body of "for comp_id in range(1, num_components)".
RECURSIVE CleanupComps(_, _, _, _, _, _, _)
CleanupComps(acc, comps, i, c, min_area, h, w) ==
  IF i > Len(comps) THEN acc
  ELSE LET comp == comps[i]
           failing == IsFailing(Cardinality(comp), min_area)
           vals == NeighborPixels(acc.lab, comp, c, h, w)
           dominant == IF failing /\ vals # {}
                       THEN BincountArgmax(acc.lab, vals) ELSE -1
           lab2 == IF dominant >= 0 THEN Assign(acc.lab, comp, dominant)
                   ELSE acc.lab
           entry == LogEntry("cleanup", c, acc.lab, comp, failing, dominant, lab2)
       IN  CleanupComps([lab |-> lab2, log |-> Append(acc.log, entry)],
                        comps, i + 1, c, min_area, h, w)

\* The body of "for color_id in range(n_colors)".
RECURSIVE CleanupColors(_, _, _, _, _, _)
CleanupColors(acc, c, n_colors, min_area, h, w) ==
  IF c >= n_colors THEN acc
  ELSE CleanupColors(
         CleanupComps(acc, ConnectedComponents(MaskOf(acc.lab, c), w), 1, c,
                      min_area, h, w),
         c + 1, n_colors, min_area, h, w)

\* cleanup_small_regions(labels, threshold_ratio): the result and the record of
\* the components examined.
CleanupRun(lab, thr, h, w) ==
  CleanupColors([lab |-> lab, log |-> << >>], 0, MaxLabel(lab) + 1,
                MinArea(h * w, thr), h, w)

cleanup_small_regions(lab, thr, h, w) == CleanupRun(lab, thr, h, w).lab

-----------------------------------------------------------------------------
(* Step 6: minimum feature thickness (enforce_min_thickness).              *)

\* Ten times the millimetres in one unit: cm * 10, in * 25.4
UnitTenthsMm(unit) == IF unit = "cm" THEN 100 ELSE 254

\* min_radius = max(int(min_thickness_mm * (w / rug_width_mm) / 2), 1), for
\* positive integer min_thickness_mm and rug_width.
MinRadius(min_thickness_mm, rug_width, unit, w) ==
  Max2(IntOf(min_thickness_mm * w * 10, rug_width * UnitTenthsMm(unit) * 2), 1)

\* round(sqrt(n)) for 0 <= n <= r*r: the k with (2k-1)^2 < 4n < (2k+1)^2
RoundSqrt(n, r) == CHOOSE k \in 0..r : /\ 4 * n < (2*k + 1) * (2*k + 1)
                                        /\ (k = 0 \/ (2*k - 1) * (2*k - 1) < 4 * n)

\* cv2.getStructuringElement(MORPH_ELLIPSE, (2r+1, 2r+1)) as offsets <<dy, dx>>
\* from the anchor: row dy spans |dx| <= round(sqrt(r*r - dy*dy)).
EllipseKernel(r) ==
  {o \in (-r..r) \X (-r..r) : Abs(o[2]) <= RoundSqrt(r*r - o[1]*o[1], r)}

InImage(r, c, h, w) == r >= 0 /\ r < h /\ c >= 0 /\ c < w

\* cv2.erode(mask, kernel): pixels outside the image never remove a pixel.
Erode(S, kernel, h, w) ==
  {p \in S : \A o \in kernel :
      LET r == Row(p, w) + o[1]
          c == Col(p, w) + o[2]
      IN  InImage(r, c, h, w) => PixelAt(r, c, w) \in S}

\* cv2.dilate(mask, kernel) for a symmetric kernel.
Dilate(S, kernel, h, w) ==
  {p \in Pixels(h, w) : \E o \in kernel :
      LET r == Row(p, w) + o[1]
          c == Col(p, w) + o[2]
      IN  InImage(r, c, h, w) /\ PixelAt(r, c, w) \in S}

\* lost = mask & ~restored
LostPixels(mask, kernel, h, w) ==
  mask \ Dilate(Erode(mask, kernel, h, w), kernel, h, w)

\* The body of "for color_id in range(n_colors)".
RECURSIVE ThicknessColors(_, _, _, _, _, _)
ThicknessColors(acc, c, n_colors, kernel, h, w) ==
  IF c >= n_colors THEN acc
  ELSE LET mask == MaskOf(acc.lab, c)
           lost == LostPixels(mask, kernel, h, w)
           vals == NeighborPixels(acc.lab, lost, c, h, w)
           dominant == IF vals # {} THEN BincountArgmax(acc.lab, vals) ELSE -1
           lab2 == IF dominant >= 0 THEN Assign(acc.lab, lost, dominant)
                   ELSE acc.lab
           entry == LogEntry("thickness", c, acc.lab, lost, TRUE, dominant, lab2)
           acc2 == IF mask = {} \/ lost = {} THEN acc
                   ELSE [lab |-> lab2, log |-> Append(acc.log, entry)]
       IN  ThicknessColors(acc2, c + 1, n_colors, kernel, h, w)

\* Faulty variant: the opening runs at radius 1 as well
ThicknessRunNoSkip(lab, n_colors, min_thickness_mm, rug_width, unit, h, w) ==
  LET min_radius == MinRadius(min_thickness_mm, rug_width, unit, w)
  IN  IF min_radius < 1 THEN [lab |-> lab, log |-> << >>]
      ELSE ThicknessColors([lab |-> lab, log |-> << >>], 0, n_colors,
                           EllipseKernel(min_radius), h, w)

\* enforce_min_thickness(labels, n_colors, min_thickness_mm, rug_width,
\* rug_height, unit): the result and the record of the lost sets examined.
ThicknessRun(lab, n_colors, min_thickness_mm, rug_width, unit, h, w) ==
  LET min_radius == MinRadius(min_thickness_mm, rug_width, unit, w)
  IN  IF min_radius < 2 THEN [lab |-> lab, log |-> << >>]
      ELSE ThicknessColors([lab |-> lab, log |-> << >>], 0, n_colors,
                           EllipseKernel(min_radius), h, w)

enforce_min_thickness(lab, n_colors, min_thickness_mm, rug_width, unit, h, w) ==
  ThicknessRun(lab, n_colors, min_thickness_mm, rug_width, unit, h, w).lab

-----------------------------------------------------------------------------
(* The yarn reference table (yarn_colors.py) and colour distances.         *)

\* Four rows of YARN_PALETTE, in table order (the table has 58 rows; the
\* model keeps the white and three of the grays).
YARN_PALETTE ==
  << [name |-> "Snow White", rgb |-> <<255, 255, 255>>],
     [name |-> "Silver",     rgb |-> <<192, 192, 192>>],
     [name |-> "Slate",      rgb |-> <<128, 128, 128>>],
     [name |-> "Charcoal",   rgb |-> <<64, 64, 64>>] >>

YARN_PALETTE_RGB == [i \in DOMAIN YARN_PALETTE |-> YARN_PALETTE[i].rgb]

YARN_PALETTE_NAMES == [i \in DOMAIN YARN_PALETTE |-> YARN_PALETTE[i].name]

\* cv2.cvtColor(..., COLOR_RGB2LAB) on 8-bit gray pixels: a = b = 128 and
\* L = round(2.55 * (116 * Y^(1/3) - 16)), Y the linearised sRGB value.
\* Tabulated for the gray levels the rasters use.
GrayL(v) ==
  CASE v = 255 -> 255
    [] v = 224 -> 227
    [] v = 192 -> 198
    [] v = 160 -> 168
    [] v = 128 -> 137
    [] v = 96  -> 104
    [] v = 64  -> 69
    [] v = 0   -> 0

RgbToLab(rgb) == <<GrayL(rgb[1]), 128, 128>>

\* Squared Euclidean distance in LAB; np.linalg.norm orders pairs the same way.
LabDist2(a, b) ==
  (a[1] - b[1]) * (a[1] - b[1]) + (a[2] - b[2]) * (a[2] - b[2])
    + (a[3] - b[3]) * (a[3] - b[3])

\* dists.argmin(axis=1): index (1-based) of the first nearest entry of cands,
\* a non-empty sequence of LAB colours.
NearestIndex(lab, cands) ==
  CHOOSE i \in DOMAIN cands :
    /\ \A j \in DOMAIN cands : LabDist2(lab, cands[i]) <= LabDist2(lab, cands[j])
    /\ \A j \in 1..(i - 1) : LabDist2(lab, cands[j]) > LabDist2(lab, cands[i])

\* The elements of a set of integers in ascending order (np.sort).
RECURSIVE SortedSeq(_)
SortedSeq(S) ==
  IF S = {} THEN << >>
  ELSE LET m == CHOOSE x \in S : \A y \in S : x <= y
       IN  <<m>> \o SortedSeq(S \ {m})

\* Distinct values of a sequence
Range(f) == {f[i] : i \in DOMAIN f}

-----------------------------------------------------------------------------
(* Step 4 (alt): quantize_to_yarn_palette.                                 *)

\* yarn_indices: nearest table row (1-based) of every pixel
YarnIndices(raster) ==
  LET yarn_lab == [i \in DOMAIN YARN_PALETTE_RGB |-> RgbToLab(YARN_PALETTE_RGB[i])]
  IN  [p \in DOMAIN raster |-> NearestIndex(RgbToLab(raster[p]), yarn_lab)]

\* np.bincount(yarn_indices, minlength=n_yarn)
YarnCounts(raster) ==
  LET idx == YarnIndices(raster)
  IN  [i \in DOMAIN YARN_PALETTE |-> Cardinality({p \in DOMAIN idx : idx[p] = i})]

\* len(seq[:n]) for a sequence of length len: Python slicing with n of any sign
SliceLen(len, n) == IF n >= 0 THEN Min2(n, len) ELSE Max2(len + n, 0)

\* np.argsort(yarn_counts)[::-1][:n_colors] as a set of rows.  The reversed
\* sort lists the rows by falling count; numpy's default sort is not stable,
\* so the order among rows of equal count is any order.
TopSelections(counts, n_colors) ==
  LET k == SliceLen(Len(counts), n_colors)
  IN  {T \in SUBSET (DOMAIN counts) :
         /\ Cardinality(T) = k
         /\ \A i \in T : \A j \in (DOMAIN counts) \ T : counts[i] >= counts[j]}

\* quantize_to_yarn_palette for one outcome T of the selection: the selected
\* colours, the label map and the colour names; a ValueError when the
\* selection is empty (argmin of an empty sequence).
QuantizeYarnWith(raster, T) ==
  IF T = {} THEN [error |-> "ValueError"]
  ELSE LET top_n_yarn_idx == SortedSeq(T)
           selected_lab == [i \in DOMAIN top_n_yarn_idx |->
                              RgbToLab(YARN_PALETTE_RGB[top_n_yarn_idx[i]])]
       IN  [error |-> "none",
            palette |-> [i \in DOMAIN top_n_yarn_idx |->
                           YARN_PALETTE_RGB[top_n_yarn_idx[i]]],
            names |-> [i \in DOMAIN top_n_yarn_idx |->
                           YARN_PALETTE_NAMES[top_n_yarn_idx[i]]],
            labels |-> [p \in DOMAIN raster |->
                           NearestIndex(RgbToLab(raster[p]), selected_lab) - 1]]

quantize_to_yarn_palette(raster, n_colors) ==
  {QuantizeYarnWith(raster, T) : T \in TopSelections(YarnCounts(raster), n_colors)}

-----------------------------------------------------------------------------
(* Step 4: quantize_colors (K-Means in LAB, scikit-learn).                 *)

\* Integer mean of the gray level of a non-empty pixel set
MeanGray(raster, S) ==
  LET m == SumOver([p \in S |-> raster[p][1]], S) \div Cardinality(S)
  IN  <<m, m, m>>

\* The clusterings K-Means can return.  Pixels of one colour get one label.
\* With at least as many clusters as distinct colours every colour has a
\* cluster of its own; with fewer, every cluster holds a colour.  Which label
\* a cluster gets depends on the seeded initialisation; the model allows any.
KMeansAssignments(raster, n_colors) ==
  LET cols == Range(raster)
  IN  {f \in [cols -> 0..(n_colors - 1)] :
         IF n_colors >= Cardinality(cols)
         THEN \A a \in cols : \A b \in cols : f[a] = f[b] => a = b
         ELSE \A j \in 0..(n_colors - 1) : \E a \in cols : f[a] = j}

\* quantize_colors for one clustering f: the centres (the mean colour of each
\* cluster; a cluster without pixels sits on a data colour) and the labels.
QuantizeFreeWith(raster, n_colors, f, spare) ==
  LET lab == [p \in DOMAIN raster |-> f[raster[p]]]
  IN  [error |-> "none",
       palette |-> [i \in 1..n_colors |->
                      IF MaskOf(lab, i - 1) = {} THEN spare
                      ELSE MeanGray(raster, MaskOf(lab, i - 1))],
       names |-> << >>,
       labels |-> lab]

\* KMeans(n_clusters=n_colors).fit raises a ValueError (InvalidParameterError)
\* for n_clusters < 1 and for more clusters than samples.
quantize_colors(raster, n_colors) ==
  IF n_colors < 1 \/ n_colors > Len(raster) THEN {[error |-> "ValueError"]}
  ELSE {QuantizeFreeWith(raster, n_colors, f, spare) :
          f \in KMeansAssignments(raster, n_colors), spare \in Range(raster)}

-----------------------------------------------------------------------------
(* Step 7: contour-based edge smoothing (smooth_edges_contour).            *)

\* Faulty variant: the sort without reverse=True, smallest area first
RECURSIVE ColorAreasAscending(_, _)
ColorAreasAscending(area, S) ==
  IF S = {} THEN << >>
  ELSE LET c == CHOOSE x \in S : \A y \in S :
                   area[x] < area[y] \/ (area[x] = area[y] /\ x <= y)
       IN  <<c>> \o ColorAreasAscending(area, S \ {c})

\* Labels 0..n_colors-1 by falling area; equal areas keep ascending label
\* order (list.sort is stable, also with reverse=True).
RECURSIVE ColorAreas(_, _)
ColorAreas(area, S) ==
  IF S = {} THEN << >>
  ELSE LET c == CHOOSE x \in S : \A y \in S :
                   area[x] > area[y] \/ (area[x] = area[y] /\ x <= y)
       IN  <<c>> \o ColorAreas(area, S \ {c})

\* The filled simplified polygons of one label's mask.  OpenCV's contour
\* tracing, Douglas-Peucker simplification and polygon fill are not modelled
\* point by point: the canvas differs from the mask only along its boundary,
\* and the model draws one of three outcomes: the mask itself, the mask
\* without its boundary pixels, the mask with the pixels touching it.
SimplifiedCanvas(mask, variant, h, w) ==
  CASE variant = "exact"  -> mask
    [] variant = "shrunk" -> {p \in mask : \A q \in Pixels(h, w) :
                                 Adjacent8(p, q, w) => q \in mask}
    [] variant = "grown"  -> DilateSquare(mask, 1, h, w)

ContourVariants == {"exact", "shrunk", "grown"}

\* The body of "for color_id, area in color_areas": output[canvas > 0] = color_id
RECURSIVE PaintColors(_, _, _, _, _, _, _)
PaintColors(output, order, i, lab, variant, h, w) ==
  IF i > Len(order) THEN output
  ELSE LET c == order[i]
           mask == MaskOf(lab, c)
           canvas == SimplifiedCanvas(mask, variant, h, w)
       IN  PaintColors(IF mask = {} THEN output ELSE Assign(output, canvas, c),
                       order, i + 1, lab, variant, h, w)

smooth_edges_contour(lab, n_colors, variant, h, w) ==
  LET area == [c \in 0..(n_colors - 1) |-> Cardinality(MaskOf(lab, c))]
      order == ColorAreas(area, 0..(n_colors - 1))
  IN  PaintColors([p \in DOMAIN lab |-> order[1]], order, 1, lab, variant, h, w)

-----------------------------------------------------------------------------
(* Step 9: palette refit (refit_palette).                                  *)

\* np.clip(mean, 0, 255).astype(np.uint8) of one channel over a pixel set
ChannelMean(raster, S, ch) ==
  Min2(255, Max2(0, SumOver([p \in S |-> raster[p][ch]], S) \div Cardinality(S)))

\* new_palette starts as zeros; a label without pixels keeps the zeros.
refit_palette(original, lab, n_colors) ==
  [i \in 1..n_colors |->
     LET S == MaskOf(lab, i - 1)
     IN  IF S = {} THEN <<0, 0, 0>>
         ELSE <<ChannelMean(original, S, 1), ChannelMean(original, S, 2),
                ChannelMean(original, S, 3)>>]

-----------------------------------------------------------------------------
(* Output assembly (build_output).                                         *)

\* Faulty variant: pixel counts taken one label off
PaletteOutShifted(pal, lab, color_names) ==
  [i \in DOMAIN pal |->
     [rgb |-> pal[i],
      pixelCount |-> Cardinality(MaskOf(lab, i)),
      name |-> IF i <= Len(color_names) THEN color_names[i] ELSE ""]]

\* One TuftColor per palette row: rgb, pixelCount, name
PaletteOut(pal, lab, color_names) ==
  [i \in DOMAIN pal |->
     [rgb |-> pal[i],
      pixelCount |-> Cardinality(MaskOf(lab, i - 1)),
      name |-> IF i <= Len(color_names) THEN color_names[i] ELSE ""]]

\* One Layer per palette row: the pixels of (labels == i)
LayersOut(pal, lab) == [i \in DOMAIN pal |-> MaskOf(lab, i - 1)]

-----------------------------------------------------------------------------
(* Step 3: pre-quantization smoothing (OpenCV throughout).                 *)

\* pre_quantization_smooth: a median, a bilateral and a median filter.  The
\* output has the input's shape and every output value lies between the least
\* and the greatest input value.  The model draws the output from the input
\* itself (flat regions are fixed points of all three filters) and the rasters
\* flattened to one colour of the input.
pre_quantization_smooth(raster) ==
  {raster} \cup {[p \in DOMAIN raster |-> v] : v \in Range(raster)}

-----------------------------------------------------------------------------
(* Requests.                                                               *)

\* Block rasters: hc x wc uniform blocks of k x k pixels each.
BlockRaster(hc, wc, k, cells) ==
  [h |-> hc * k, w |-> wc * k,
   px |-> [p \in 1..(hc * k * wc * k) |->
             cells[(Row(p, wc * k) \div k) * wc + (Col(p, wc * k) \div k) + 1]]]

\* Block layouts <<rows, columns>> of the input rasters
Shapes == {<<1, 2>>, <<2, 2>>}

\* Colours of the input rasters
RasterColors == {<<255, 255, 255>>, <<128, 128, 128>>}

Rasters ==
  UNION {{BlockRaster(sh[1], sh[2], k, cells) :
            k \in 1..MaxScale, cells \in [1..(sh[1] * sh[2]) -> RasterColors]} :
         sh \in Shapes}

\* regionThreshold as <<numerator, denominator>>: the default 0.005, and 0.75
Thresholds == {<<5, 1000>>, <<3, 4>>}

\* minThickness (mm), width and unit: the default thickness on a 10 in rug, and
\* a coarse raster of a small rug, where the radius reaches 2 pixels
Physical ==
  {[minThickness |-> 5, width |-> 10, unit |-> "in"],
   [minThickness |-> 70, width |-> 6, unit |-> "cm"]}

PaletteSizes(useYarnPalette) ==
  IF useYarnPalette THEN (-1)..(Len(YARN_PALETTE) + 1) ELSE (-1)..MaxColors

\* ProcessRequest (schemas.py); image holds the decoded raster
Requests ==
  {[image |-> r, useYarnPalette |-> y, paletteSize |-> n,
    regionThreshold |-> t, minThickness |-> ph.minThickness,
    width |-> ph.width, unit |-> ph.unit] :
     r \in Rasters, y \in BOOLEAN, n \in PaletteSizes(TRUE),
     t \in Thresholds, ph \in Physical}

ValidRequests == {r \in Requests : r.paletteSize \in PaletteSizes(r.useYarnPalette)}

-----------------------------------------------------------------------------
(* process_image, one action per stage, and process_endpoint's mapping of   *)
(* exceptions to responses.                                                *)

NoResponse == [status |-> "none", palette |-> << >>, layers |-> << >>]

\* except ValueError -> HTTPException(400); no palette, layers or image
ErrorResponse(code) == [NoResponse EXCEPT !.status = code]

\* Faulty variant: one cleanup pass fewer before thickness
CleanupPasses1Short == 4 - 1

\* "for _ in range(4)" before thickness, "for _ in range(2)" after contours
CleanupPasses1 == 4

CleanupPasses2 == 2

\* Faulty variant: refit in both modes
RunsRefitAlways(r) == TRUE

\* "if not request.useYarnPalette": refit only in free mode
RunsRefit(r) == ~r.useYarnPalette

Stage(name, inp, out) == [stage |-> name, inp |-> inp, out |-> out]

Init ==
  /\ req \in ValidRequests
  /\ pc = <<"decode", 0>>
  /\ dims = <<0, 0>>
  /\ img = << >>
  /\ smoothed = << >>
  /\ labels = << >>
  /\ palette = << >>
  /\ names = << >>
  /\ trace = << >>
  /\ log = << >>
  /\ resp = NoResponse

\* Steps 1-2: decode_and_normalize, limit_resolution (no raster of the model
\* exceeds max_dim)
DecodeAndNormalize ==
  /\ pc = <<"decode", 0>>
  /\ img' = req.image.px
  /\ dims' = <<req.image.h, req.image.w>>
  /\ trace' = Append(trace, Stage("normalize", << >>, << >>))
  /\ pc' = <<"smooth", 0>>
  /\ UNCHANGED <<req, smoothed, labels, palette, names, log, resp>>

PreQuantizationSmooth ==
  /\ pc = <<"smooth", 0>>
  /\ smoothed' \in pre_quantization_smooth(img)
  /\ trace' = Append(trace, Stage("smooth", << >>, << >>))
  /\ pc' = <<"quantize", 0>>
  /\ UNCHANGED <<req, dims, img, labels, palette, names, log, resp>>

Quantize ==
  /\ pc = <<"quantize", 0>>
  /\ \E q \in (IF req.useYarnPalette
               THEN quantize_to_yarn_palette(smoothed, req.paletteSize)
               ELSE quantize_colors(smoothed, req.paletteSize)) :
       IF q.error = "none"
       THEN /\ labels' = q.labels
            /\ palette' = q.palette
            /\ names' = q.names
            /\ trace' = Append(trace, Stage("quantize", << >>, q.labels))
            /\ pc' = <<"cleanup1", 0>>
            /\ resp' = resp
       ELSE /\ resp' = ErrorResponse("400")
            /\ pc' = <<"failed", 0>>
            /\ UNCHANGED <<labels, palette, names, trace>>
  /\ UNCHANGED <<req, dims, img, smoothed, log>>

\* Step 5: one pass of "for _ in range(4)"
Cleanup1 ==
  /\ pc[1] = "cleanup1"
  /\ \E run \in {CleanupRun(labels, req.regionThreshold, dims[1], dims[2])} :
         /\ labels' = run.lab
         /\ log' = run.log
         /\ trace' = Append(trace, Stage("cleanup", labels, run.lab))
  /\ pc' = IF pc[2] + 1 < CleanupPasses1 THEN <<"cleanup1", pc[2] + 1>>
           ELSE <<"thickness", 0>>
  /\ UNCHANGED <<req, dims, img, smoothed, palette, names, resp>>

EnforceMinThickness ==
  /\ pc = <<"thickness", 0>>
  /\ \E run \in {ThicknessRun(labels, Len(palette), req.minThickness,
                                req.width, req.unit, dims[1], dims[2])} :
         /\ labels' = run.lab
         /\ log' = run.log
         /\ trace' = Append(trace, Stage("thickness", labels, run.lab))
  /\ pc' = <<"contour", 0>>
  /\ UNCHANGED <<req, dims, img, smoothed, palette, names, resp>>

SmoothEdgesContour ==
  /\ pc = <<"contour", 0>>
  /\ \E variant \in ContourVariants :
       \E out \in {smooth_edges_contour(labels, Len(palette), variant,
                                        dims[1], dims[2])} :
           /\ labels' = out
           /\ trace' = Append(trace, Stage("contour", labels, out))
  /\ log' = << >>
  /\ pc' = <<"cleanup2", 0>>
  /\ UNCHANGED <<req, dims, img, smoothed, palette, names, resp>>

\* Step 8: one pass of "for _ in range(2)"
Cleanup2 ==
  /\ pc[1] = "cleanup2"
  /\ \E run \in {CleanupRun(labels, req.regionThreshold, dims[1], dims[2])} :
         /\ labels' = run.lab
         /\ log' = run.log
         /\ trace' = Append(trace, Stage("cleanup", labels, run.lab))
  /\ pc' = IF pc[2] + 1 < CleanupPasses2 THEN <<"cleanup2", pc[2] + 1>>
           ELSE IF RunsRefit(req) THEN <<"refit", 0>> ELSE <<"outline", 0>>
  /\ UNCHANGED <<req, dims, img, smoothed, palette, names, resp>>

RefitPalette ==
  /\ pc = <<"refit", 0>>
  /\ palette' = refit_palette(img, labels, Len(palette))
  /\ trace' = Append(trace, Stage("refit", labels, labels))
  /\ log' = << >>
  /\ pc' = <<"outline", 0>>
  /\ UNCHANGED <<req, dims, img, smoothed, labels, names, resp>>

\* Step 10: generate_outline_svg reads the label map and returns the SVG
\* text, which the model does not hold.
GenerateOutline ==
  /\ pc = <<"outline", 0>>
  /\ trace' = Append(trace, Stage("outline", labels, labels))
  /\ log' = << >>
  /\ pc' = <<"assemble", 0>>
  /\ UNCHANGED <<req, dims, img, smoothed, labels, palette, names, resp>>

\* build_output and the ProcessResponse returned to the client
BuildOutput ==
  /\ pc = <<"assemble", 0>>
  /\ resp' = [status |-> "200",
              palette |-> PaletteOut(palette, labels, names),
              layers |-> LayersOut(palette, labels)]
  /\ trace' = Append(trace, Stage("assemble", labels, labels))
  /\ pc' = <<"done", 0>>
  /\ UNCHANGED <<req, dims, img, smoothed, labels, palette, names, log>>

Next ==
  \/ DecodeAndNormalize
  \/ PreQuantizationSmooth
  \/ Quantize
  \/ Cleanup1
  \/ EnforceMinThickness
  \/ SmoothEdgesContour
  \/ Cleanup2
  \/ RefitPalette
  \/ GenerateOutline
  \/ BuildOutput

Spec == Init /\ [][Next]_vars

-----------------------------------------------------------------------------
(* The cleanup and thickness stages on their own: a label map of up to      *)
(* MaxLabels labels is given to cleanup_small_regions twice in a row, or to *)
(* enforce_min_thickness once.                                             *)

StageShapes == {<<1, 3>>, <<2, 2>>}

\* regionThreshold: the default 0.005, and 17/32 = 0.53125
StageThresholds == {<<5, 1000>>, <<17, 32>>}

StageLabelMaps ==
  UNION {{BlockRaster(sh[1], sh[2], k, cells) :
            k \in 1..MaxScale,
            cells \in [1..(sh[1] * sh[2]) -> 0..(MaxLabels - 1)]} :
         sh \in StageShapes}

StageRequests ==
  {[image |-> m, useYarnPalette |-> FALSE, paletteSize |-> MaxLabels,
    regionThreshold |-> t, minThickness |-> ph.minThickness,
    width |-> ph.width, unit |-> ph.unit] :
     m \in StageLabelMaps, t \in StageThresholds, ph \in Physical}

InitStages ==
  /\ req \in StageRequests
  /\ pc = <<"input", 0>>
  /\ dims = <<req.image.h, req.image.w>>
  /\ img = << >>
  /\ smoothed = << >>
  /\ labels = req.image.px
  /\ palette = [i \in 1..MaxLabels |-> <<0, 0, 0>>]
  /\ names = << >>
  /\ trace = << >>
  /\ log = << >>
  /\ resp = NoResponse

\* labels = cleanup_small_regions(labels, threshold_ratio=...)
StageCleanup ==
  /\ pc \in {<<"input", 0>>, <<"cleaned", 1>>}
  /\ \E run \in {CleanupRun(labels, req.regionThreshold, dims[1], dims[2])} :
         /\ labels' = run.lab
         /\ log' = run.log
         /\ trace' = Append(trace, Stage("cleanup", labels, run.lab))
  /\ pc' = <<"cleaned", pc[2] + 1>>
  /\ UNCHANGED <<req, dims, img, smoothed, palette, names, resp>>

\* labels = enforce_min_thickness(labels, len(palette_rgb), ...)
StageThickness ==
  /\ pc = <<"input", 0>>
  /\ \E run \in {ThicknessRun(labels, Len(palette), req.minThickness,
                                req.width, req.unit, dims[1], dims[2])} :
         /\ labels' = run.lab
         /\ log' = run.log
         /\ trace' = Append(trace, Stage("thickness", labels, run.lab))
  /\ pc' = <<"thick", 1>>
  /\ UNCHANGED <<req, dims, img, smoothed, palette, names, resp>>

\* The record of one smooth_edges_contour call: the label map read, the
\* outcome of the polygon simplification, the label map returned.
ContourEntry(variant, before, after) ==
  [stage |-> "contour", color |-> -1, before |-> before, comp |-> {},
   failing |-> FALSE, dominant |-> -1, after |-> after, variant |-> variant]

\* labels = smooth_edges_contour(labels, len(palette_rgb))
StageContour ==
  /\ pc = <<"input", 0>>
  /\ \E variant \in ContourVariants :
       \E out \in {smooth_edges_contour(labels, Len(palette), variant,
                                        dims[1], dims[2])} :
           /\ labels' = out
           /\ log' = <<ContourEntry(variant, labels, out)>>
           /\ trace' = Append(trace, Stage("contour", labels, out))
  /\ pc' = <<"smoothed", 1>>
  /\ UNCHANGED <<req, dims, img, smoothed, palette, names, resp>>

NextStages == StageCleanup \/ StageThickness \/ StageContour

SpecStages == InitStages /\ [][NextStages]_vars

-----------------------------------------------------------------------------
(* Properties of process_image (checked under Spec).                       *)

\* Stages of process_image that hold a label map: from quantization on
HasLabelMap ==
  pc[1] \in {"cleanup1", "thickness", "contour", "cleanup2", "refit",
             "outline", "assemble", "done"}

StageNames == [i \in DOMAIN trace |-> trace[i].stage]

\* Some stage of the given kinds wrote a label map other than the one it read
SomeStageChanged(kinds) ==
  \E i \in DOMAIN trace : trace[i].stage \in kinds /\ trace[i].inp # trace[i].out

LabelsPresent == {labels[p] : p \in DOMAIN labels}

\* C1: after quantization and after every later stage (each cleanup pass,
\* thickness enforcement, contour smoothing), the label map has as many pixels
\* as the raster (its height times its width) and every label lies in
\* [0, n_colors), n_colors the length of the palette.
C1_LabelsInRange ==
  HasLabelMap =>
    /\ DOMAIN labels = 1..(dims[1] * dims[2])
    /\ Len(labels) = Len(img)
    /\ \A p \in DOMAIN labels : labels[p] >= 0 /\ labels[p] < Len(palette)
    /\ \A i \in DOMAIN trace :
         trace[i].out # << >> => DOMAIN trace[i].out = DOMAIN img

\* A finished run of a three-colour palette in which contour smoothing rewrote
\* the label map and a final cleanup pass rewrote it again.
C1_Witness ==
  /\ pc = <<"done", 0>>
  /\ Len(palette) >= 3
  /\ SomeStageChanged({"contour"})
  /\ \E i \in DOMAIN trace :
       i > 9 /\ trace[i].stage = "cleanup" /\ trace[i].inp # trace[i].out

\* C2: the pixel counts of the palette entries add up to H*W: for the palette
\* build_output returns (whose layers hold every pixel exactly once), and for
\* the label map after every stage from quantization on.
C2_PixelCountsPartition ==
  /\ HasLabelMap =>
       SumOver([i \in DOMAIN palette |-> Cardinality(MaskOf(labels, i - 1))],
               DOMAIN palette) = dims[1] * dims[2]
  /\ resp.status = "200" =>
       /\ SumOver([i \in DOMAIN resp.palette |-> resp.palette[i].pixelCount],
                  DOMAIN resp.palette) = dims[1] * dims[2]
       /\ \A i \in DOMAIN resp.palette :
            resp.palette[i].pixelCount = Cardinality(resp.layers[i])
       /\ \A p \in 1..(dims[1] * dims[2]) :
            Cardinality({i \in DOMAIN resp.layers : p \in resp.layers[i]}) = 1

\* A response whose palette has two entries with pixels and one without.
C2_Witness ==
  /\ resp.status = "200"
  /\ Cardinality({i \in DOMAIN resp.palette : resp.palette[i].pixelCount > 0}) >= 2
  /\ \E i \in DOMAIN resp.palette : resp.palette[i].pixelCount = 0

\* C6: in constrained mode refit never runs and every colour of the returned
\* palette is a row of the reference table, whatever the stages did to the
\* label map; in free mode refit runs exactly once, after the last cleanup pass.
C6_RefitOnlyInFreeMode ==
  /\ req.useYarnPalette =>
       /\ \A i \in DOMAIN trace : trace[i].stage # "refit"
       /\ \A i \in DOMAIN palette : palette[i] \in Range(YARN_PALETTE_RGB)
       /\ \A i \in DOMAIN resp.palette :
            resp.palette[i].rgb \in Range(YARN_PALETTE_RGB)
  /\ (~req.useYarnPalette /\ pc[1] \in {"outline", "assemble", "done"}) =>
       /\ Cardinality({i \in DOMAIN trace : trace[i].stage = "refit"}) = 1
       /\ \A i \in DOMAIN trace : \A j \in DOMAIN trace :
            (trace[i].stage = "refit" /\ trace[j].stage = "cleanup") => j < i
       /\ \A i \in DOMAIN trace :
            trace[i].stage = "refit" => trace[i - 1].stage = "cleanup"
  /\ (~req.useYarnPalette /\ pc[1] \notin {"outline", "assemble", "done"}) =>
       \A i \in DOMAIN trace : trace[i].stage # "refit"

\* A constrained-mode response after stages that rewrote the label map.
C6_Witness ==
  /\ resp.status = "200"
  /\ req.useYarnPalette
  /\ SomeStageChanged({"cleanup", "thickness", "contour"})
  /\ Len(resp.palette) >= 2

\* The stage order of process_image for a request
ExpectedStages(r) ==
  <<"normalize", "smooth", "quantize", "cleanup", "cleanup", "cleanup",
    "cleanup", "thickness", "contour", "cleanup", "cleanup">>
  \o (IF r.useYarnPalette THEN << >> ELSE <<"refit">>)
  \o <<"outline", "assemble">>

\* C7: the stages run in the order normalize, smooth, quantize, 4 cleanup
\* passes, thickness, contour smoothing, 2 cleanup passes, refit (free mode
\* only), outline, assembly: at every moment the stages run so far are the
\* start of that list, a finished request has run the whole list, and each
\* stage after quantization reads the label map the stage before it produced.
C7_StageOrder ==
  /\ Len(trace) <= Len(ExpectedStages(req))
  /\ StageNames = SubSeq(ExpectedStages(req), 1, Len(trace))
  /\ pc = <<"done", 0>> => StageNames = ExpectedStages(req)
  /\ \A i \in DOMAIN trace : i > 3 => trace[i].inp = trace[i - 1].out
  /\ HasLabelMap => labels = trace[Len(trace)].out

\* A finished free-mode request, and so one that ran the refit stage too.
C7_Witness ==
  /\ pc = <<"done", 0>>
  /\ ~req.useYarnPalette
  /\ Len(trace) = 14
  /\ SomeStageChanged({"contour"})

\* A palette size the spec wants rejected
BadPaletteSize(r) ==
  \/ r.paletteSize <= 0
  \/ (r.useYarnPalette /\ r.paletteSize > Len(YARN_PALETTE))

\* C8: a request whose palette size is <= 0, or in constrained mode larger
\* than the reference table, is rejected with a client error and produces no
\* palette, label map or layers; no request completes with a palette whose
\* length differs from the requested palette size.
C8_BadPaletteSizeRejected ==
  /\ BadPaletteSize(req) =>
       /\ resp.status # "200"
       /\ labels = << >> /\ palette = << >>
       /\ pc[1] \in {"decode", "smooth", "quantize", "failed"}
       /\ pc[1] = "failed" => resp = ErrorResponse("400")
  /\ resp.status = "200" => Len(resp.palette) = req.paletteSize

-----------------------------------------------------------------------------
(* Properties of the cleanup and thickness stages (checked under            *)
(* SpecStages).                                                            *)

Uniform(lab) == Cardinality(Range(lab)) = 1

\* A two-label checkerboard of k x k cells (cut off at the image's edge)
IsCheckerboard(lab, k, h, w) ==
  /\ Range(lab) = {0, 1}
  /\ \E par \in {0, 1} : \A p \in DOMAIN lab :
       lab[p] = ((Row(p, w) \div k) + (Col(p, w) \div k) + par) % 2

\* Area of the largest cell of such a checkerboard
CellArea(k, h, w) == Min2(k, h) * Min2(k, w)

\* area < max(total * thr, 8), the product taken as a real number
BelowRealThreshold(area, total, thr) ==
  area * thr[2] < Max2(total * thr[1], 8 * thr[2])

\* area < max(floor(total * thr), 8)
BelowFloorThreshold(area, total, thr) ==
  area < 8 \/ (area + 1) * thr[2] <= total * thr[1]

\* The 8-connected same-label component of pixel p
ComponentOf(lab, p, w) == Grow({p}, {p}, MaskOf(lab, lab[p]), w)

\* C3 as stated: a two-label checkerboard whose cells each have area below
\* max(total_pixels * regionThreshold, 8) is all one label after cleanup.
C3_CheckerboardCollapses ==
  (pc[1] = "cleaned"
     /\ \E k \in 1..Max2(dims[1], dims[2]) :
          /\ IsCheckerboard(req.image.px, k, dims[1], dims[2])
          /\ BelowRealThreshold(CellArea(k, dims[1], dims[2]),
                                dims[1] * dims[2], req.regionThreshold))
  => Uniform(labels)

\* Every 8-connected component of the label map is below the floor threshold
AllComponentsSmall(lab, thr, h, w) ==
  \A p \in DOMAIN lab :
    BelowFloorThreshold(Cardinality(ComponentOf(lab, p, w)), h * w, thr)

\* C3 amended: a two-label checkerboard whose 8-connected components (the
\* cells of one label joined through their corners) each have area below
\* max(floor(total_pixels * regionThreshold), 8) is all one label after a
\* cleanup pass.
C3_SmallComponentsCollapse ==
  (pc[1] = "cleaned"
     /\ \E k \in 1..Max2(dims[1], dims[2]) :
          IsCheckerboard(req.image.px, k, dims[1], dims[2])
     /\ AllComponentsSmall(req.image.px, req.regionThreshold, dims[1], dims[2]))
  => Uniform(labels)

\* A checkerboard of at least four cells, all components small, after cleanup.
C3_Witness ==
  /\ pc[1] = "cleaned"
  /\ \E k \in 1..Max2(dims[1], dims[2]) :
       /\ IsCheckerboard(req.image.px, k, dims[1], dims[2])
       /\ dims[1] >= 2 * k /\ dims[2] >= 2 * k
  /\ AllComponentsSmall(req.image.px, req.regionThreshold, dims[1], dims[2])

\* No 8-connected component of the label map is below the floor threshold
NoSmallComponent(lab, thr, h, w) ==
  \A p \in DOMAIN lab :
    ~BelowFloorThreshold(Cardinality(ComponentOf(lab, p, w)), h * w, thr)

\* C4: a cleanup pass given a label map none of whose 8-connected components
\* is below the threshold returns it unchanged at every pixel, and so does a
\* second pass.  (The threshold is max(floor(total * thr), 8); a map free of
\* components below max(total * thr, 8) is free of these too.)
C4_CleanupIdempotent ==
  \A i \in DOMAIN trace :
    (trace[i].stage = "cleanup"
       /\ NoSmallComponent(trace[i].inp, req.regionThreshold, dims[1], dims[2]))
    => trace[i].out = trace[i].inp

\* Two passes over a map of two or more labels without a small component.
C4_Witness ==
  /\ pc = <<"cleaned", 2>>
  /\ Cardinality(Range(req.image.px)) >= 2
  /\ NoSmallComponent(req.image.px, req.regionThreshold, dims[1], dims[2])

\* min_thickness_mm * (w / rug_width_mm) / 2 < 2 as a real number, with
\* rug_width_mm = width * 10 (cm) or width * 25.4 (in)
RadiusBelowTwo(r, w) ==
  IF r.unit = "cm" THEN r.minThickness * w < 4 * r.width * 10
  ELSE r.minThickness * w * 10 < 4 * r.width * 254

\* C5: when the radius computed from minThickness, the image width and the
\* physical width is below 2 pixels, enforce_min_thickness returns the label
\* map unchanged at every pixel.
C5_ThinRadiusIsNoOp ==
  \A i \in DOMAIN trace :
    (trace[i].stage = "thickness" /\ RadiusBelowTwo(req, dims[2]))
    => (trace[i].out = trace[i].inp /\ log = << >>)

\* Thickness ran with a radius below 2 on a rug measured in cm whose label map
\* has a region of one pixel.
C5_Witness ==
  /\ pc = <<"thick", 1>>
  /\ req.unit = "cm"
  /\ RadiusBelowTwo(req, dims[2])
  /\ \E p \in DOMAIN labels : ComponentOf(labels, p, dims[2]) = {p}

\* C9 as stated: a component is failing iff its area is strictly below
\* max(total_pixels * regionThreshold, 8), the product not rounded.
C9_FailingIffBelowThreshold ==
  \A i \in DOMAIN log :
    log[i].stage = "cleanup" =>
      (log[i].failing <=>
         BelowRealThreshold(Cardinality(log[i].comp), dims[1] * dims[2],
                            req.regionThreshold))

\* C9 amended: a component is failing iff its area is strictly below
\* max(floor(total_pixels * regionThreshold), 8); only a failing component is
\* ever reassigned.
C9_FailingIffBelowFloor ==
  \A i \in DOMAIN log :
    log[i].stage = "cleanup" =>
      /\ log[i].failing <=>
           BelowFloorThreshold(Cardinality(log[i].comp), dims[1] * dims[2],
                               req.regionThreshold)
      /\ ~log[i].failing => (log[i].dominant = -1 /\ log[i].after = log[i].before)

\* Cleanup examined a component whose area lies between the floor of the
\* product and the product itself.
C9_Witness ==
  \E i \in DOMAIN log :
    /\ log[i].stage = "cleanup"
    /\ Cardinality(log[i].comp) >= 8
    /\ ~BelowFloorThreshold(Cardinality(log[i].comp), dims[1] * dims[2],
                            req.regionThreshold)
    /\ BelowRealThreshold(Cardinality(log[i].comp), dims[1] * dims[2],
                          req.regionThreshold)

\* Pixels outside the set S within 4 rows and 4 columns of it whose label is not c
RingOf(lab, S, c, w) ==
  {p \in (DOMAIN lab) \ S :
     /\ lab[p] # c
     /\ \E q \in S : Abs(Row(p, w) - Row(q, w)) <= 4
                     /\ Abs(Col(p, w) - Col(q, w)) <= 4}

RingCount(e, l, w) ==
  Cardinality({p \in RingOf(e.before, e.comp, e.color, w) : e.before[p] = l})

\* C10: when cleanup or thickness reassigns a failing pixel set of label c,
\* every pixel of the set receives the label most frequent among the ring
\* pixels whose label is not c, the smallest label among those tied; the set
\* is reassigned whenever the ring holds such a pixel.
C10_DominantNeighbor ==
  \A i \in DOMAIN log :
    LET e == log[i]
        ring == RingOf(e.before, e.comp, e.color, dims[2])
    IN  /\ (e.failing /\ ring # {}) => e.dominant >= 0
        /\ e.dominant >= 0 =>
             /\ e.failing
             /\ e.dominant # e.color
             /\ RingCount(e, e.dominant, dims[2]) > 0
             /\ \A l \in Range(e.before) :
                  l # e.color =>
                    /\ RingCount(e, l, dims[2]) <= RingCount(e, e.dominant, dims[2])
                    /\ RingCount(e, l, dims[2]) = RingCount(e, e.dominant, dims[2])
                         => e.dominant <= l
             /\ \A p \in DOMAIN e.after :
                  e.after[p] = IF p \in e.comp THEN e.dominant ELSE e.before[p]

\* Thickness reassigned a lost pixel set whose ring holds two labels equally
\* often.
C10_Witness ==
  \E i \in DOMAIN log :
    /\ log[i].stage = "thickness"
    /\ log[i].dominant >= 0
    /\ \E l \in Range(log[i].before) :
         /\ l # log[i].color /\ l # log[i].dominant
         /\ RingCount(log[i], l, dims[2]) = RingCount(log[i], log[i].dominant, dims[2])

IterationOf(c) == {i \in DOMAIN log : log[i].color = c}

\* C12: over the iteration of cleanup or thickness for label c, a pixel
\* changes only if it carried c when the iteration started, and only to a
\* label other than c; the same holds for each pixel set written within it.
C12_OnlyOwnLabelMoves ==
  \A c \in 0..(MaxLabels - 1) :
    LET it == IterationOf(c)
    IN  it # {} =>
          LET first == CHOOSE i \in it : \A j \in it : i <= j
              last == CHOOSE i \in it : \A j \in it : j <= i
              start == log[first].before
              end == log[last].after
          IN  /\ \A p \in DOMAIN start :
                   start[p] # end[p] => (start[p] = c /\ end[p] # c)
              /\ \A i \in it : \A p \in DOMAIN start :
                   log[i].before[p] # log[i].after[p]
                     => (log[i].before[p] = c /\ log[i].after[p] # c)
              /\ \A i \in it : i # last => log[i + 1].before = log[i].after

\* The iteration of a label other than 0 reassigned a pixel set while pixels
\* of two other labels were in the map.
C12_Witness ==
  \E c \in 1..(MaxLabels - 1) :
    \E i \in IterationOf(c) :
      /\ log[i].dominant >= 0
      /\ Cardinality(Range(log[i].before)) >= 3

\* The simplified filled mask of every label; none for a label without pixels
SimplifiedMasks(lab, variant, h, w) ==
  [c \in 0..(Len(palette) - 1) |->
     IF MaskOf(lab, c) = {} THEN {}
     ELSE SimplifiedCanvas(MaskOf(lab, c), variant, h, w)]

\* Labels whose simplified filled mask covers pixel p
CoveringLabels(masks, p) == {c \in DOMAIN masks : p \in masks[c]}

\* C13: in the output of smooth_edges_contour a pixel covered by the
\* simplified masks of several labels carries the one of smallest input area
\* (the labels are painted by falling area), a pixel covered by none carries a
\* label of largest input area (the initial fill), and a label with no pixel
\* in the input appears nowhere.
C13_PaintedByFallingArea ==
  \A i \in DOMAIN log :
    log[i].stage = "contour" =>
      \A masks \in {SimplifiedMasks(log[i].before, log[i].variant,
                                    dims[1], dims[2])} :
        \A area \in {[c \in DOMAIN masks |->
                        Cardinality(MaskOf(log[i].before, c))]} :
          \A p \in DOMAIN log[i].after :
            LET cover == CoveringLabels(masks, p)
                l == log[i].after[p]
            IN  /\ area[l] > 0
                /\ IF cover = {}
                   THEN \A c \in DOMAIN area : area[c] <= area[l]
                   ELSE l \in cover /\ \A c \in cover : area[l] <= area[c]

\* Contour smoothing of a map in which the grown masks of two labels of
\* different area meet on a pixel, a third label having no pixel at all.
C13_Witness ==
  \E i \in DOMAIN log :
    /\ log[i].stage = "contour"
    /\ log[i].variant = "grown"
    /\ \E c \in 0..(Len(palette) - 1) : MaskOf(log[i].before, c) = {}
    /\ \E masks \in {SimplifiedMasks(log[i].before, log[i].variant,
                                     dims[1], dims[2])} :
         \E p \in DOMAIN log[i].before :
           \E a, b \in CoveringLabels(masks, p) :
             Cardinality(MaskOf(log[i].before, a))
               < Cardinality(MaskOf(log[i].before, b))

-----------------------------------------------------------------------------
(* Properties of refit_palette and quantize_to_yarn_palette (checked       *)
(* under Spec).                                                            *)

\* v is an integer nearest to sum / n (either neighbour when exactly halfway),
\* kept within 0..255
IsRoundedMean(v, sum, n) ==
  /\ v >= 0 /\ v <= 255
  /\ Abs(2 * sum - 2 * n * v) <= n

\* C14: refit_palette gives every label with a pixel in the final label map
\* the per-channel mean of the original raster over its pixels, clamped to
\* [0, 255] and rounded to an integer, and leaves a label without pixels the
\* colour it had in the palette before the refit.
C14_RefitMeanOrPriorColor ==
  [][pc = <<"refit", 0>> =>
       \A i \in DOMAIN palette :
         LET S == MaskOf(labels, i - 1)
         IN  IF S = {} THEN palette'[i] = palette[i]
             ELSE \A ch \in 1..3 :
                    IsRoundedMean(palette'[i][ch],
                                  SumOver([p \in S |-> img[p][ch]], S),
                                  Cardinality(S))]_vars

\* The table row (1-based) a returned colour name stands for
RowOfName(n) == CHOOSE k \in DOMAIN YARN_PALETTE_NAMES : YARN_PALETTE_NAMES[k] = n

\* C15: in yarn mode with 1 <= n_colors <= the table size, quantization
\* selects n_colors distinct table rows, none left out having a greater usage
\* count than one selected, rows of equal count taken in table order; palette
\* and names list them by rising table index, and label i stands for the i-th
\* of them.
C15_TopRowsInTableOrder ==
  (pc = <<"cleanup1", 0>> /\ req.useYarnPalette
     /\ req.paletteSize >= 1 /\ req.paletteSize <= Len(YARN_PALETTE))
  =>
    LET rows == [i \in DOMAIN names |-> RowOfName(names[i])]
        sel == Range(rows)
        counts == YarnCounts(smoothed)
        sel_lab == [i \in DOMAIN rows |-> RgbToLab(YARN_PALETTE_RGB[rows[i]])]
    IN  /\ Len(palette) = req.paletteSize
        /\ Len(names) = req.paletteSize
        /\ Cardinality(sel) = req.paletteSize
        /\ \A i \in sel : \A j \in (DOMAIN YARN_PALETTE) \ sel :
             counts[j] < counts[i] \/ (counts[j] = counts[i] /\ i < j)
        /\ \A i \in DOMAIN rows :
             /\ i > 1 => rows[i - 1] < rows[i]
             /\ palette[i] = YARN_PALETTE_RGB[rows[i]]
        /\ \A p \in DOMAIN labels :
             /\ labels[p] + 1 \in DOMAIN rows
             /\ \A j \in DOMAIN rows :
                  LabDist2(RgbToLab(smoothed[p]), sel_lab[labels[p] + 1])
                    <= LabDist2(RgbToLab(smoothed[p]), sel_lab[j])

====
